---- MODULE Spec2Model ----
(***************************************************************************)
(* Field-aware factorization machine engine of src/lib/ffm.cpp: the        *)
(* weight buffer and its two layouts, the dual-mode interaction kernel     *)
(* wTx, init_model / shrink_model, the training loop, ffm_predict, the     *)
(* text persistence and the ownership of models.                           *)
(*                                                                         *)
(* Numbers.  ffm_float values are modelled as exact integers (a fixed-     *)
(* point reading of the floats): sums and products are exact, and the      *)
(* reciprocal square root of the AdaGrad step is the truncated integer     *)
(* quotient by the floor square root.  A row scale r = 1/sqrt(s) is kept   *)
(* as the integer s (its inverse square), so r = 1 is s = 1.               *)
(*                                                                         *)
(* Memory.  heap is the process memory around the weight buffer, indexed   *)
(* by float offset from model.W: offsets 0..BufSize-1 are the buffer, the  *)
(* negative offsets are foreign memory in front of it.                     *)
(***************************************************************************)
EXTENDS Integers, Sequences, FiniteSets, TLC

VARIABLES
    model,      \* the ffm_model fields n, m, k, normalization (W is heap)
    heap,       \* float offset from model.W  |->  value
    phase,      \* position in the model's life / the running routine
    row,        \* the node sequence [begin, end) handed to the kernel
    upd,        \* number of update-mode kernel calls made so far
    last,       \* what the most recent call did (observation only)
    aux         \* per-specification state (training loop, heap objects, file)

vars == <<model, heap, phase, row, upd, last, aux>>

-----------------------------------------------------------------------------
(* Bounds of the model.                                                    *)

NumIdx == 2
NumFld == 2
ReqK == 2
MaxRowLen == 2
MaxV == 2
MaxUpdates == 2
RandRange == 3

(* Program constants.                                                      *)
kALIGNByte == 16
SizeofFloat == 4
kALIGN == kALIGNByte \div SizeofFloat

-----------------------------------------------------------------------------
(* Arithmetic helpers.                                                     *)

RECURSIVE SeqSum(_)
SeqSum(s) == IF s = <<>> THEN 0 ELSE Head(s) + SeqSum(Tail(s))

RECURSIVE SetSum(_, _)
SetSum(F, S) ==
    IF S = {} THEN 0
    ELSE LET x == CHOOSE y \in S : TRUE IN F[x] + SetSum(F, S \ {x})

RECURSIVE ISqrtFrom(_, _)
ISqrtFrom(x, s) == IF (s + 1) * (s + 1) > x THEN s ELSE ISqrtFrom(x, s + 1)

ISqrt(x) == IF x <= 0 THEN 0 ELSE ISqrtFrom(x, 0)

TDiv(a, b) == IF a >= 0 THEN a \div b ELSE -((-a) \div b)

\* _mm_mul_ps(_mm_rsqrt_ps(wg), g): g / sqrt(wg)
RsqrtMul(wg, g) == IF ISqrt(wg) = 0 THEN 0 ELSE TDiv(g, ISqrt(wg))

-----------------------------------------------------------------------------
(* Nodes, rows, memory.                                                    *)

Nodes == [j : (-1) .. NumIdx, f : (-1) .. NumFld, v : 1 .. MaxV]

Rows == UNION {[1 .. l -> Nodes] : l \in 0 .. MaxRowLen}

k_aligned(k) == ((k + kALIGN - 1) \div kALIGN) * kALIGN

\* size of the buffer init_model allocates: n*m*k_aligned*2 floats
AllocSize(n, m, k) == n * m * k_aligned(k) * 2

BufSize == AllocSize(NumIdx, NumFld, ReqK)

\* lowest offset a node with j >= -1, f >= -1 can address
HeapLo == -((NumFld + 1) * 2 * k_aligned(ReqK))

HeapDom == HeapLo .. (BufSize - 1)

InBuffer(o) == 0 <= o /\ o < BufSize

Rd(h, o) == IF o \in DOMAIN h THEN h[o] ELSE 0

Wr(h, o, x) == IF o \in DOMAIN h THEN [h EXCEPT ![o] = x] ELSE h

\* drand48(): the i-th draw of the generator (a small linear congruence)
drand48(seed, i) == (seed * 5 + i * 7 + 1) % RandRange

\* init_model: the value written at offset o of a fresh buffer
InitW(n, m, kreq, seed, o) ==
    LET ka == k_aligned(kreq)
        cell == o \div (2 * ka)
        d == o % (2 * ka)
    IN  IF d < kreq THEN drand48(seed, cell * kreq + d)
        ELSE IF d < ka THEN 0
        ELSE 1

init_model(n, m, param) ==
    [n |-> n, m |-> m, k |-> k_aligned(param.k),
     normalization |-> param.normalization]

InitHeap(n, m, kreq, seed, junk) ==
    [o \in HeapDom |-> IF InBuffer(o) THEN InitW(n, m, kreq, seed, o) ELSE junk]

-----------------------------------------------------------------------------
(* The interaction kernel wTx.                                             *)

NodeSkipped(md, N1) == N1.j >= md.n \/ N1.f >= md.m

\* faulty variant: the same-field test is missing
PairSkippedNoFieldTest(md, N1, N2) == N2.j >= md.n \/ N2.f >= md.m

PairSkipped(md, N1, N2) == N2.j >= md.n \/ N2.f >= md.m \/ N1.f = N2.f

\* the pairs <<i1, i2>> the two loops reach past both `continue`s, in order
RECURSIVE wTxPairsFrom(_, _, _, _)
wTxPairsFrom(md, rw, i1, i2) ==
    IF i1 > Len(rw) THEN <<>>
    ELSE IF NodeSkipped(md, rw[i1]) \/ i2 > Len(rw)
         THEN wTxPairsFrom(md, rw, i1 + 1, i1 + 2)
    ELSE IF PairSkipped(md, rw[i1], rw[i2])
         THEN wTxPairsFrom(md, rw, i1, i2 + 1)
    ELSE <<(<<i1, i2>>)>> \o wTxPairsFrom(md, rw, i1, i2 + 1)

wTxPairs(md, rw) == wTxPairsFrom(md, rw, 1, 2)

align0(md) == md.k * 2
align1(md) == md.m * align0(md)

\* w1 = model.W + j1*align1 + f2*align0,  w2 = model.W + j2*align1 + f1*align0
wOff1(md, N1, N2) == N1.j * align1(md) + N2.f * align0(md)
\* faulty variant: w2 taken at N2's own field
wOff2OwnField(md, N1, N2) == N2.j * align1(md) + N2.f * align0(md)

wOff2(md, N1, N2) == N2.j * align1(md) + N1.f * align0(md)

\* score mode, one pair: sum over d of w1[d]*w2[d]*v, v = 2*v1*v2*r
PairScore(md, h, N1, N2, r) ==
    LET w1 == wOff1(md, N1, N2)
        w2 == wOff2(md, N1, N2)
        v == 2 * N1.v * N2.v * r
    IN  SeqSum([d1 \in 1 .. md.k |-> Rd(h, w1 + d1 - 1) * Rd(h, w2 + d1 - 1) * v])

wTxScore(md, h, rw, r) ==
    LET ps == wTxPairs(md, rw)
    IN  SeqSum([i \in 1 .. Len(ps) |->
                  PairScore(md, h, rw[ps[i][1]], rw[ps[i][2]], r)])

\* update mode, one coordinate d of one pair: loads, gradients, accumulate,
\* step, stores (w1, w2, wg1, wg2 in that order)
UpdateCoord(md, h, w1, w2, d, kappav, eta, lambda) ==
    LET wg1 == w1 + md.k
        wg2 == w2 + md.k
        XMMw1 == Rd(h, w1 + d)
        XMMw2 == Rd(h, w2 + d)
        XMMwg1 == Rd(h, wg1 + d)
        XMMwg2 == Rd(h, wg2 + d)
        XMMg1 == lambda * XMMw1 + kappav * XMMw2
        XMMg2 == lambda * XMMw2 + kappav * XMMw1
        nwg1 == XMMwg1 + XMMg1 * XMMg1
        nwg2 == XMMwg2 + XMMg2 * XMMg2
        nw1 == XMMw1 - eta * RsqrtMul(nwg1, XMMg1)
        nw2 == XMMw2 - eta * RsqrtMul(nwg2, XMMg2)
    IN  Wr(Wr(Wr(Wr(h, w1 + d, nw1), w2 + d, nw2), wg1 + d, nwg1), wg2 + d, nwg2)

RECURSIVE UpdatePairFrom(_, _, _, _, _, _, _, _)
UpdatePairFrom(md, h, w1, w2, d, kappav, eta, lambda) ==
    IF d >= md.k THEN h
    ELSE UpdatePairFrom(md, UpdateCoord(md, h, w1, w2, d, kappav, eta, lambda),
                        w1, w2, d + 1, kappav, eta, lambda)

UpdatePair(md, h, N1, N2, r, kappa, eta, lambda) ==
    UpdatePairFrom(md, h, wOff1(md, N1, N2), wOff2(md, N1, N2), 0,
                   kappa * (2 * N1.v * N2.v * r), eta, lambda)

RECURSIVE wTxUpdateFrom(_, _, _, _, _, _, _, _, _)
wTxUpdateFrom(md, h, rw, ps, i, r, kappa, eta, lambda) ==
    IF i > Len(ps) THEN h
    ELSE wTxUpdateFrom(md,
            UpdatePair(md, h, rw[ps[i][1]], rw[ps[i][2]], r, kappa, eta, lambda),
            rw, ps, i + 1, r, kappa, eta, lambda)

wTxUpdate(md, h, rw, r, kappa, eta, lambda) ==
    wTxUpdateFrom(md, h, rw, wTxPairs(md, rw), 1, r, kappa, eta, lambda)

\* the float offsets a kernel call loads or stores
wTxAccess(md, rw, do_update) ==
    LET ps == wTxPairs(md, rw)
        span == IF do_update THEN 2 * md.k ELSE md.k
    IN  UNION {
          {wOff1(md, rw[ps[i][1]], rw[ps[i][2]]) + d : d \in 0 .. (span - 1)}
            \cup
          {wOff2(md, rw[ps[i][1]], rw[ps[i][2]]) + d : d \in 0 .. (span - 1)}
          : i \in 1 .. Len(ps)}

-----------------------------------------------------------------------------
(* shrink_model: in-place compaction, blocks in (j, f) order, each block   *)
(* copied front to back by std::copy.                                      *)

\* faulty variant: the source block taken at stride k instead of 2k
ShrinkSrcStrideK(md, c) == c * md.k

ShrinkSrc(md, c) == c * md.k * 2
ShrinkDst(k_new, c) == c * k_new

\* one element of copy(src, src+k_new, dst) for block c = j*m + f
ShrinkElem(md, h, k_new, c, d) ==
    Wr(h, ShrinkDst(k_new, c) + d, Rd(h, ShrinkSrc(md, c) + d))

\* the block and coordinate copied after (c, d)
ShrinkNext(k_new, c, d) ==
    IF d + 1 < k_new THEN <<c, d + 1>> ELSE <<c + 1, 0>>

RECURSIVE ShrinkFrom(_, _, _, _, _)
ShrinkFrom(md, h, k_new, c, d) ==
    IF c >= md.n * md.m THEN h
    ELSE LET nx == ShrinkNext(k_new, c, d)
         IN  ShrinkFrom(md, ShrinkElem(md, h, k_new, c, d), k_new, nx[1], nx[2])

shrink_model(md, h, k_new) == ShrinkFrom(md, h, k_new, 0, 0)

-----------------------------------------------------------------------------
(* ffm_predict.  The result sigmoid(t) with t = r * num is kept as the     *)
(* pair (num, s), r = 1/sqrt(s).                                           *)

\* r: 1, or 1/sqrt(sum of v^2) when model->normalization
PredictRowScale(md, rw) ==
    IF md.normalization
    THEN SeqSum([i \in 1 .. Len(rw) |-> rw[i].v * rw[i].v])
    ELSE 1

PredictNodeSkipped(md, N1) == N1.j >= md.n \/ N1.f >= md.m

PredictPairSkipped(md, N1, N2) == N2.j >= md.n \/ N2.f >= md.m \/ N1.f = N2.f

RECURSIVE PredictPairsFrom(_, _, _, _)
PredictPairsFrom(md, rw, i1, i2) ==
    IF i1 > Len(rw) THEN <<>>
    ELSE IF PredictNodeSkipped(md, rw[i1]) \/ i2 > Len(rw)
         THEN PredictPairsFrom(md, rw, i1 + 1, i1 + 2)
    ELSE IF PredictPairSkipped(md, rw[i1], rw[i2])
         THEN PredictPairsFrom(md, rw, i1, i2 + 1)
    ELSE <<(<<i1, i2>>)>> \o PredictPairsFrom(md, rw, i1, i2 + 1)

PredictPairs(md, rw) == PredictPairsFrom(md, rw, 1, 2)

\* align0 = k, align1 = m*align0
pOff1(md, N1, N2) == N1.j * (md.m * md.k) + N2.f * md.k
pOff2(md, N1, N2) == N2.j * (md.m * md.k) + N1.f * md.k

PredictPairTerm(md, h, N1, N2) ==
    LET w1 == pOff1(md, N1, N2)
        w2 == pOff2(md, N1, N2)
    IN  SeqSum([d1 \in 1 .. md.k |->
                  Rd(h, w1 + d1 - 1) * Rd(h, w2 + d1 - 1) * (2 * N1.v * N2.v)])

PredictNum(md, h, rw) ==
    LET ps == PredictPairs(md, rw)
    IN  SeqSum([i \in 1 .. Len(ps) |->
                  PredictPairTerm(md, h, rw[ps[i][1]], rw[ps[i][2]])])

ffm_predict(md, h, rw) ==
    [num |-> PredictNum(md, h, rw), s |-> PredictRowScale(md, rw)]

PredictAccess(md, rw) ==
    LET ps == PredictPairs(md, rw)
    IN  UNION {
          {pOff1(md, rw[ps[i][1]], rw[ps[i][2]]) + d : d \in 0 .. (md.k - 1)}
            \cup
          {pOff2(md, rw[ps[i][1]], rw[ps[i][2]]) + d : d \in 0 .. (md.k - 1)}
          : i \in 1 .. Len(ps)}

-----------------------------------------------------------------------------
(* Specification Spec: a freshly initialised model, one row, and any       *)
(* sequence of kernel calls on it, then shrink and inference.              *)

Seeds == {0, 1}
JunkVals == {1, 2}
Kappas == {-1, 1}
Etas == {1}
Lambdas == {0, 1}

NoCall ==
    [op |-> "none", res |-> 0, s |-> 1, access |-> {}, before |-> <<>>,
     kbefore |-> 0, kappa |-> 0, eta |-> 0, lambda |-> 0]

Init ==
    /\ \E norm \in BOOLEAN, seed \in Seeds, junk \in JunkVals :
          /\ model = init_model(NumIdx, NumFld,
                                [k |-> ReqK, normalization |-> norm])
          /\ heap = InitHeap(NumIdx, NumFld, ReqK, seed, junk)
    /\ phase = "unshrunk"
    /\ row \in Rows
    /\ upd = 0
    /\ last = NoCall
    /\ aux = <<>>

\* t = wTx(begin, end, r, model)
ScoreCall ==
    /\ phase = "unshrunk"
    /\ last' = [NoCall EXCEPT !.op = "score",
                              !.res = wTxScore(model, heap, row, 1),
                              !.access = wTxAccess(model, row, FALSE),
                              !.before = heap, !.kbefore = model.k]
    /\ UNCHANGED <<model, heap, phase, row, upd, aux>>

\* wTx(begin, end, r, model, kappa, eta, lambda, true)
UpdateCall ==
    /\ phase = "unshrunk"
    /\ upd < MaxUpdates
    /\ \E kappa \in Kappas, eta \in Etas, lambda \in Lambdas :
          /\ heap' = wTxUpdate(model, heap, row, 1, kappa, eta, lambda)
          /\ last' = [NoCall EXCEPT !.op = "update",
                                    !.access = wTxAccess(model, row, TRUE),
                                    !.before = heap, !.kbefore = model.k,
                                    !.kappa = kappa, !.eta = eta,
                                    !.lambda = lambda]
    /\ upd' = upd + 1
    /\ UNCHANGED <<model, phase, row, aux>>

\* shrink_model(model, param.k)
ShrinkCall ==
    /\ phase = "unshrunk"
    /\ heap' = shrink_model(model, heap, ReqK)
    /\ model' = [model EXCEPT !.k = ReqK]
    /\ phase' = "shrunk"
    /\ last' = [NoCall EXCEPT !.op = "shrink", !.before = heap,
                              !.kbefore = model.k]
    /\ UNCHANGED <<row, upd, aux>>

\* ffm_predict(begin, end, model)
PredictCall ==
    /\ phase = "shrunk"
    /\ last' = [NoCall EXCEPT !.op = "predict",
                              !.res = ffm_predict(model, heap, row).num,
                              !.s = ffm_predict(model, heap, row).s,
                              !.access = PredictAccess(model, row),
                              !.before = heap, !.kbefore = model.k]
    /\ UNCHANGED <<model, heap, phase, row, upd, aux>>

Next == ScoreCall \/ UpdateCall \/ ShrinkCall \/ PredictCall

Spec == Init /\ [][Next]_vars

-----------------------------------------------------------------------------
(* Properties of the kernel and of inference, under Spec.                  *)

InRange(md, N) == 0 <= N.j /\ N.j < md.n /\ 0 <= N.f /\ N.f < md.m

\* the model as it was when the last call ran
LastModel == [model EXCEPT !.k = last.kbefore]

\* the pairs of positions a < b of different fields
CrossPairs(rw) ==
    {p \in (1 .. Len(rw)) \X (1 .. Len(rw)) : p[1] < p[2] /\ rw[p[1]].f # rw[p[2]].f}

\* the two cell offsets the kernel forms for the pair p of positions
N1Off(p) == wOff1(LastModel, row[p[1]], row[p[2]])
N2Off(p) == wOff2(LastModel, row[p[1]], row[p[2]])

Changed == {o \in DOMAIN heap : heap[o] # last.before[o]}

Permuted(rw, p) == [i \in 1 .. Len(rw) |-> rw[p[i]]]

\* C1: every offset the kernel or ffm_predict touches lies inside the
\* buffer (n*m*2k floats unshrunk, n*m*k shrunk), and no pair with an
\* out-of-range node (negative values included) is processed.
C1_AccessInsideBuffer ==
    /\ last.op \in {"score", "update"} =>
          /\ \A o \in last.access :
                0 <= o /\ o < LastModel.n * LastModel.m * 2 * LastModel.k
          /\ \A i \in 1 .. Len(wTxPairs(LastModel, row)) :
                /\ InRange(LastModel, row[wTxPairs(LastModel, row)[i][1]])
                /\ InRange(LastModel, row[wTxPairs(LastModel, row)[i][2]])
    /\ last.op = "predict" =>
          /\ \A o \in last.access :
                0 <= o /\ o < model.n * model.m * model.k
          /\ \A i \in 1 .. Len(PredictPairs(model, row)) :
                /\ InRange(model, row[PredictPairs(model, row)[i][1]])
                /\ InRange(model, row[PredictPairs(model, row)[i][2]])

\* C2: a pair of nodes of the same field adds nothing to the score of wTx
\* or ffm_predict and changes no slot in update mode: the score is the sum
\* over the pairs of different fields, and an update changes only slots of
\* the cells (j1,f2), (j2,f1) of such pairs.
C2_SelfFieldExcluded ==
    /\ last.op = "score" =>
          last.res = SetSum(
              [p \in CrossPairs(row) |->
                  IF NodeSkipped(LastModel, row[p[1]]) \/ NodeSkipped(LastModel, row[p[2]])
                  THEN 0
                  ELSE PairScore(LastModel, heap, row[p[1]], row[p[2]], 1)],
              CrossPairs(row))
    /\ last.op = "update" =>
          \A o \in Changed :
             \E p \in CrossPairs(row) :
                \E b \in {N1Off(p), N2Off(p)} : b <= o /\ o < b + 2 * LastModel.k
    /\ last.op = "predict" =>
          last.res = SetSum(
              [p \in CrossPairs(row) |->
                  IF PredictNodeSkipped(model, row[p[1]]) \/ PredictNodeSkipped(model, row[p[2]])
                  THEN 0
                  ELSE PredictPairTerm(model, heap, row[p[1]], row[p[2]])],
              CrossPairs(row))

\* C2 witness: a score call on a row of two in-range nodes of one field
\* whose cells hold a non-zero product.
C2_Witness ==
    /\ last.op = "score"
    /\ Len(row) = 2
    /\ row[1].f = row[2].f
    /\ row[1].j # row[2].j
    /\ InRange(model, row[1]) /\ InRange(model, row[2])
    /\ PairScore(model, heap, row[1], row[2], 1) # 0
    /\ last.res = 0

\* C5: the score of wTx and the total of ffm_predict do not depend on the
\* order of the nodes of the row.
C5_PermutationInvariant ==
    /\ last.op = "score" =>
          \A p \in Permutations(1 .. Len(row)) :
             wTxScore(LastModel, heap, Permuted(row, p), 1) = last.res
    /\ last.op = "predict" =>
          \A p \in Permutations(1 .. Len(row)) :
             ffm_predict(model, heap, Permuted(row, p)) = [num |-> last.res, s |-> last.s]

\* C5 witness: a non-zero score of a row of two different nodes.
C5_Witness ==
    /\ last.op = "score"
    /\ Len(row) = 2
    /\ row[1] # row[2]
    /\ last.res # 0

\* the accumulator slots of the buffer
AccSlots(md) ==
    {c * 2 * md.k + md.k + d : c \in 0 .. (md.n * md.m - 1), d \in 0 .. (md.k - 1)}

\* C9: before shrink every accumulator is at least its seed 1 and never
\* decreases, the step divides by the updated accumulator, and the two
\* cells touched for one pair are distinct.
C9_AccumulatorsAndDistinctCells ==
    phase = "unshrunk" =>
       /\ \A o \in AccSlots(model) : heap[o] >= 1
       /\ last.op = "update" =>
             /\ \A o \in AccSlots(model) : heap[o] >= last.before[o]
             /\ \A i \in 1 .. Len(wTxPairs(model, row)) :
                   LET N1 == row[wTxPairs(model, row)[i][1]]
                       N2 == row[wTxPairs(model, row)[i][2]]
                   IN  wOff1(model, N1, N2) # wOff2(model, N1, N2)
             /\ Len(wTxPairs(model, row)) = 1 =>
                   LET N1 == row[wTxPairs(model, row)[1][1]]
                       N2 == row[wTxPairs(model, row)[1][2]]
                       w1 == wOff1(model, N1, N2)
                       w2 == wOff2(model, N1, N2)
                       kv == last.kappa * 2 * N1.v * N2.v
                   IN  \A d \in 0 .. (model.k - 1) :
                          LET g1 == last.lambda * last.before[w1 + d]
                                      + kv * last.before[w2 + d]
                          IN  /\ heap[w1 + model.k + d]
                                   = last.before[w1 + model.k + d] + g1 * g1
                              /\ heap[w1 + d] = last.before[w1 + d]
                                   - last.eta * RsqrtMul(heap[w1 + model.k + d], g1)

\* the score over the first kreq coordinates only
ScoreFirst(md, h, rw, kreq) ==
    LET ps == wTxPairs(md, rw)
    IN  SeqSum([i \in 1 .. Len(ps) |->
          LET N1 == rw[ps[i][1]]
              N2 == rw[ps[i][2]]
          IN  SeqSum([d1 \in 1 .. kreq |->
                 Rd(h, wOff1(md, N1, N2) + d1 - 1) * Rd(h, wOff2(md, N1, N2) + d1 - 1)
                   * (2 * N1.v * N2.v)])])

\* C10: the padding coordinates kreq <= d < k_aligned of every embedding
\* stay 0 under update calls, so the score over k_aligned coordinates is
\* the score over the first kreq, which is what ffm_predict sums after
\* the shrink.
C10_PaddingStaysZero ==
    /\ phase = "unshrunk" =>
          \A c \in 0 .. (model.n * model.m - 1) : \A d \in ReqK .. (model.k - 1) :
             heap[c * 2 * model.k + d] = 0
    /\ last.op = "score" => last.res = ScoreFirst(model, heap, row, ReqK)
    /\ last.op = "shrink" =>
          PredictNum(model, heap, row) = wTxScore(LastModel, last.before, row, 1)

-----------------------------------------------------------------------------
(* Specification SpecShrink: shrink_model element by element on unshrunk   *)
(* models of any content; aux holds k_new, the scan position (c, d) and    *)
(* the buffer as it was before the call.                                   *)

InitShrink ==
    /\ \E n \in 1 .. NumIdx, m \in 1 .. NumFld, norm \in BOOLEAN :
          model = init_model(n, m, [k |-> ReqK, normalization |-> norm])
    /\ \E seed \in Seeds :
          heap \in {[o \in 0 .. (model.n * model.m * 2 * model.k - 1) |-> o + 1 + seed],
                    [o \in 0 .. (model.n * model.m * 2 * model.k - 1) |->
                        InitW(model.n, model.m, ReqK, seed, o)]}
    /\ phase = "shrink"
    /\ row = <<>>
    /\ upd = 0
    /\ last = NoCall
    /\ \E k_new \in 1 .. model.k :
          aux = [k_new |-> k_new, c |-> 0, d |-> 0, orig |-> heap]

\* one assignment of copy(src, src+k_new, dst)
ShrinkCopy ==
    /\ phase = "shrink"
    /\ aux.c < model.n * model.m
    /\ heap' = ShrinkElem(model, heap, aux.k_new, aux.c, aux.d)
    /\ aux' = [aux EXCEPT !.c = ShrinkNext(aux.k_new, aux.c, aux.d)[1],
                          !.d = ShrinkNext(aux.k_new, aux.c, aux.d)[2]]
    /\ UNCHANGED <<model, phase, row, upd, last>>

\* model.k = k_new
ShrinkReturn ==
    /\ phase = "shrink"
    /\ aux.c >= model.n * model.m
    /\ model' = [model EXCEPT !.k = aux.k_new]
    /\ phase' = "shrunk"
    /\ UNCHANGED <<heap, row, upd, last, aux>>

NextShrink == ShrinkCopy \/ ShrinkReturn

SpecShrink == InitShrink /\ [][NextShrink]_vars

\* the elements (block, coordinate) the scan has still to copy after (c, d)
LaterElems(md, k_new, c, d) ==
    {e \in (0 .. (md.n * md.m - 1)) \X (0 .. (k_new - 1)) :
        e[1] > c \/ (e[1] = c /\ e[2] > d)}

-----------------------------------------------------------------------------
(* Text persistence.  A file is the sequence of its whitespace-separated   *)
(* tokens.  operator<< of a float prints 6 significant decimal digits      *)
(* (the stream's default precision); operator>> reads the nearest float.   *)
(* Weights here are integer-valued floats, so both steps are exact         *)
(* integer computations.                                                   *)

Abs(x) == IF x < 0 THEN -x ELSE x

RECURSIVE Pow(_, _)
Pow(b, e) == IF e = 0 THEN 1 ELSE b * Pow(b, e - 1)

RECURSIVE NumDigits(_, _)
NumDigits(a, b) == IF a < b THEN 1 ELSE 1 + NumDigits(a \div b, b)

\* a / q rounded to the nearest integer, ties to even
RoundHalfEven(a, q) ==
    LET lo == a \div q
        rem == a % q
    IN  IF 2 * rem < q THEN lo
        ELSE IF 2 * rem > q THEN lo + 1
        ELSE IF lo % 2 = 0 THEN lo ELSE lo + 1

\* the default precision of an ostream
StreamPrecision == 6

\* the width of a float's significand
FloatMantBits == 24

StrTok(t) == [kind |-> "str", text |-> t]
IntTok(v) == [kind |-> "int", v |-> v]
LabelTok(j, f) == [kind |-> "label", j |-> j, f |-> f]

\* f_out << *ptr: the value at 6 significant digits, as mant * 10^exp
FormatFloat(x) ==
    LET a == Abs(x)
        nd == NumDigits(a, 10)
    IN  IF nd <= StreamPrecision
        THEN [kind |-> "num", neg |-> x < 0, mant |-> a, exp |-> 0]
        ELSE LET e == nd - StreamPrecision
                 m6 == RoundHalfEven(a, Pow(10, e))
             IN  IF m6 = Pow(10, StreamPrecision)
                 THEN [kind |-> "num", neg |-> x < 0,
                       mant |-> Pow(10, StreamPrecision - 1), exp |-> e + 1]
                 ELSE [kind |-> "num", neg |-> x < 0, mant |-> m6, exp |-> e]

\* the float nearest to the integer x
RoundToFloat(x) ==
    LET a == Abs(x)
        nb == NumDigits(a, 2)
        r == IF nb <= FloatMantBits THEN a
             ELSE RoundHalfEven(a, Pow(2, nb - FloatMantBits))
                     * Pow(2, nb - FloatMantBits)
    IN  IF x < 0 THEN -r ELSE r

\* f_in >> int: a failed extraction stores 0
ParseInt(tok) == IF tok.kind = "int" THEN tok.v ELSE 0

\* f_in >> float
ParseFloat(tok) ==
    IF tok.kind = "num"
    THEN RoundToFloat((IF tok.neg THEN -1 ELSE 1) * tok.mant * Pow(10, tok.exp))
    ELSE IF tok.kind = "int" THEN RoundToFloat(tok.v)
    ELSE 0

\* the four header lines
SaveHeader(md) ==
    <<StrTok("n"), IntTok(md.n), StrTok("m"), IntTok(md.m),
      StrTok("k"), IntTok(md.k),
      StrTok("normalization"), IntTok(IF md.normalization THEN 1 ELSE 0)>>

\* one line: the label "w<j>,<f>" and the k values at ptr, ptr+1, ...
SaveLine(md, h, c) ==
    <<LabelTok(c \div md.m, c % md.m)>>
       \o [d1 \in 1 .. md.k |-> FormatFloat(h[c * md.k + d1 - 1])]

RECURSIVE SaveLinesFrom(_, _, _)
SaveLinesFrom(md, h, c) ==
    IF c >= md.n * md.m THEN <<>>
    ELSE SaveLine(md, h, c) \o SaveLinesFrom(md, h, c + 1)

ffm_save_model(md, h) == SaveHeader(md) \o SaveLinesFrom(md, h, 0)

HeaderTokens == 8

\* faulty variant: the label token of a line is not read away
LoadValueIndexNoLabel(k, c, d) == HeaderTokens + c * k + d + 1

\* position in the file of value d of line c: header, c full lines, a label
LoadValueIndex(k, c, d) == HeaderTokens + c * (k + 1) + 1 + d + 1

TokAt(file, i) == IF i \in 1 .. Len(file) THEN file[i] ELSE StrTok("")

ffm_load_model(file) ==
    LET n == ParseInt(TokAt(file, 2))
        m == ParseInt(TokAt(file, 4))
        k == ParseInt(TokAt(file, 6))
        nz == ParseInt(TokAt(file, 8)) = 1
    IN  [model |-> [n |-> n, m |-> m, k |-> k, normalization |-> nz],
         heap |-> [o \in 0 .. (m * n * k - 1) |->
                     ParseFloat(TokAt(file, LoadValueIndex(k, o \div k, o % k)))]]

-----------------------------------------------------------------------------
(* Specification SpecPersist: a shrunk model, saved and loaded again.      *)
(* aux holds the file (or NoFile) and the loaded model (or NoModel).       *)

NoFile == <<>>
NoModel == [model |-> [n |-> 0, m |-> 0, k |-> 0, normalization |-> FALSE],
            heap |-> <<>>, null |-> TRUE]

ShortVals == <<0, 1, -3, 25, 999>>
LongVals == <<0, 1, -3, 250000, 999999, 1234567, -7654321, 16777215, 33554432>>

InitPersist ==
    /\ \E n \in 1 .. NumIdx, m \in 1 .. NumFld, k \in 1 .. ReqK, norm \in BOOLEAN :
          model = [n |-> n, m |-> m, k |-> k, normalization |-> norm]
    /\ \E tab \in {ShortVals, LongVals} : \E shift \in 0 .. (Len(tab) - 1) :
          heap = [o \in 0 .. (model.n * model.m * model.k - 1) |->
                     tab[((o + shift) % Len(tab)) + 1]]
    /\ phase = "shrunk"
    /\ row = <<>>
    /\ upd = 0
    /\ last = NoCall
    /\ aux = [file |-> NoFile, loaded |-> NoModel, ret |-> 0]

\* ffm_save_model(model, path): 1 when the file cannot be opened
SaveCall ==
    /\ phase = "shrunk"
    /\ \E opened \in BOOLEAN :
          aux' = IF opened
                 THEN [aux EXCEPT !.file = ffm_save_model(model, heap), !.ret = 0]
                 ELSE [aux EXCEPT !.ret = 1]
    /\ UNCHANGED <<model, heap, phase, row, upd, last>>

\* ffm_load_model(path): nullptr when the file cannot be opened or the
\* buffer cannot be allocated
LoadCall ==
    /\ phase = "shrunk"
    /\ \E alloc_ok \in BOOLEAN :
          aux' = IF aux.file = NoFile \/ ~alloc_ok
                 THEN [aux EXCEPT !.loaded = NoModel]
                 ELSE [aux EXCEPT !.loaded = ffm_load_model(aux.file) @@ [null |-> FALSE]]
    /\ UNCHANGED <<model, heap, phase, row, upd, last>>

NextPersist == SaveCall \/ LoadCall

SpecPersist == InitPersist /\ [][NextPersist]_vars

Loaded == ~aux.loaded.null

\* the saved value rounded to 6 significant decimal digits
Round6(x) ==
    LET a == Abs(x)
        e == NumDigits(a, 10) - 6
        r == IF e <= 0 THEN a ELSE RoundHalfEven(a, Pow(10, e)) * Pow(10, e)
    IN  IF x < 0 THEN -r ELSE r

\* the rows of two nodes without a negative index or field
PairRows ==
    {rw \in [1 .. 2 -> Nodes] : \A i \in 1 .. 2 : rw[i].j >= 0 /\ rw[i].f >= 0}

\* C4 as stated: the loaded model has the dimensions and flag of the saved
\* one and the same value at every offset index*m*k + field*k + d.
C4_RoundTripExact ==
    Loaded =>
       /\ aux.loaded.model = model
       /\ \A o \in 0 .. (model.n * model.m * model.k - 1) : aux.loaded.heap[o] = heap[o]

\* C4 amended: same n, m, k, normalization; the file is the 8 header
\* tokens in the order n, m, k, normalization and n*m lines of a label and
\* k values in (index, field) order; every loaded value is the saved value
\* rounded to 6 significant digits, so it is the saved value itself when
\* that has at most 6 digits, and then ffm_predict agrees on every pair
\* of nodes read inside the buffer.
C4_RoundTripSixDigits ==
    /\ aux.file # NoFile =>
          /\ Len(aux.file) = HeaderTokens + model.n * model.m * (model.k + 1)
          /\ <<aux.file[1].text, aux.file[3].text, aux.file[5].text, aux.file[7].text>>
                = <<"n", "m", "k", "normalization">>
          /\ \A c \in 0 .. (model.n * model.m - 1) :
                aux.file[HeaderTokens + c * (model.k + 1) + 1]
                   = LabelTok(c \div model.m, c % model.m)
    /\ Loaded =>
          /\ aux.loaded.model = model
          /\ DOMAIN aux.loaded.heap = 0 .. (model.n * model.m * model.k - 1)
          /\ \A o \in 0 .. (model.n * model.m * model.k - 1) :
                /\ aux.loaded.heap[o] = Round6(heap[o])
                /\ Abs(heap[o]) < 1000000 => aux.loaded.heap[o] = heap[o]
                /\ 200000 * Abs(aux.loaded.heap[o] - heap[o]) <= Abs(heap[o])
          /\ (\A o \in DOMAIN heap : Abs(heap[o]) < 1000) =>
                \A rw \in PairRows :
                   ffm_predict(aux.loaded.model, aux.loaded.heap, rw)
                      = ffm_predict(model, heap, rw)

\* C4 witness: a loaded model of several cells one of whose values was
\* changed by the rounding.
C4_Witness ==
    /\ Loaded
    /\ model.n * model.m >= 2
    /\ model.k >= 2
    /\ \E o \in DOMAIN heap : aux.loaded.heap[o] # heap[o]

-----------------------------------------------------------------------------
(* Specification SpecTrain: train_with_validation / train, statement by    *)
(* statement.  aux holds the parameters, the two problems, the loop        *)
(* counters and locals of train, and counts of what has been done.         *)

\* ffm_float r = 1.0 (as the inverse square of r)
TrainRowScale == 1

\* kappa = -y*expnyt/(1+expnyt), expnyt = exp(-y*t): of the sign of -y and
\* larger in size when y*t <= 0
KappaOf(y, t) == IF y * t > 0 THEN -y ELSE -2 * y

\* y = (yval > 0) ? 1.0f : -1.0f
LabelOf(yval) == IF yval > 0 THEN 1 ELSE -1

\* faulty variant: the epoch loop stops one epoch early
EpochLoopRunsShort(iter, nr_iters) == iter + 1 < nr_iters

\* for(ffm_int iter = 0; iter < param.nr_iters; iter++)
EpochLoopRuns(iter, nr_iters) == iter < nr_iters

MaxRows == 2
MaxIters == 2

TrainRowSet ==
    { <<[j |-> 0, f |-> 0, v |-> 1], [j |-> 1, f |-> 1, v |-> 2]>>,
      <<[j |-> 0, f |-> 0, v |-> 1], [j |-> 1, f |-> 0, v |-> 1]>>,
      <<[j |-> -1, f |-> 0, v |-> 1], [j |-> 0, f |-> 1, v |-> 1]>>,
      <<[j |-> 1, f |-> 1, v |-> 1]>> }

Examples ==
    [isInt : {TRUE}, yval : {0, 1}, nodes : TrainRowSet]
       \cup {[isInt |-> FALSE, yval |-> 0, nodes |-> <<>>]}

Problems == UNION {[1 .. l -> Examples] : l \in 0 .. MaxRows}

ValidationSets ==
    {[null |-> TRUE, rows |-> <<>>], [null |-> FALSE, rows |-> <<>>]}
       \cup {[null |-> FALSE, rows |-> <<e>>] : e \in {x \in Examples : x.isInt /\ x.yval = 1}}

InitTrain ==
    /\ model = [n |-> 0, m |-> 0, k |-> 0, normalization |-> FALSE]
    /\ heap = <<>>
    /\ phase = "t_start"
    /\ row = <<>>
    /\ upd = 0
    /\ last = NoCall
    /\ \E tr \in Problems, va \in ValidationSets, nr_iters \in 0 .. MaxIters,
          quiet \in BOOLEAN, norm \in BOOLEAN :
          aux = [param |-> [k |-> ReqK, nr_iters |-> nr_iters, quiet |-> quiet,
                            normalization |-> norm, eta |-> 1, lambda |-> 0],
                 tr |-> tr, va |-> va, iter |-> 0, i |-> 0, vi |-> 0,
                 r |-> 0, t |-> 0, shrinks |-> 0, afterShrink |-> 0,
                 scores |-> 0, pre |-> <<>>, ret |-> "none"]

\* shared_ptr<ffm_model> model = init_model(tr->n, tr->m, param)
TrainInitModel ==
    /\ phase = "t_start"
    /\ \E alloc_ok \in BOOLEAN :
          IF alloc_ok
          THEN /\ model' = init_model(NumIdx, NumFld, aux.param)
               /\ heap' = InitHeap(NumIdx, NumFld, aux.param.k, 0, 1)
               /\ phase' = "t_epoch"
               /\ aux' = aux
          ELSE /\ phase' = "t_threw"
               /\ aux' = [aux EXCEPT !.ret = "bad_alloc"]
               /\ UNCHANGED <<model, heap>>
    /\ UNCHANGED <<row, upd, last>>

\* the test of the epoch loop; past it, shrink_model(*model, param.k)
TrainEpochTest ==
    /\ phase = "t_epoch"
    /\ IF EpochLoopRuns(aux.iter, aux.param.nr_iters)
       THEN /\ phase' = "t_row"
            /\ aux' = [aux EXCEPT !.i = 0]
            /\ UNCHANGED <<model, heap>>
       ELSE /\ heap' = shrink_model(model, heap, aux.param.k)
            /\ model' = [model EXCEPT !.k = aux.param.k]
            /\ phase' = "t_return"
            /\ aux' = [aux EXCEPT !.shrinks = @ + 1, !.pre = heap]
    /\ UNCHANGED <<row, upd, last>>

\* one row: build row_nodes, r = 1.0, t = wTx(begin, end, r, *model)
TrainScore ==
    /\ phase = "t_row"
    /\ aux.i < Len(aux.tr)
    /\ IF ~aux.tr[aux.i + 1].isInt
       THEN /\ phase' = "t_threw"
            /\ aux' = [aux EXCEPT !.ret = "Response must be integer type."]
            /\ UNCHANGED row
       ELSE /\ row' = aux.tr[aux.i + 1].nodes
            /\ phase' = "t_update"
            /\ aux' = [aux EXCEPT
                  !.r = TrainRowScale,
                  !.t = wTxScore(model, heap, row', TrainRowScale),
                  !.scores = @ + 1,
                  !.afterShrink = @ + (IF aux.shrinks > 0 THEN 1 ELSE 0)]
    /\ UNCHANGED <<model, heap, upd, last>>

\* kappa, then wTx(begin, end, r, *model, kappa, param.eta, param.lambda, true)
TrainUpdate ==
    /\ phase = "t_update"
    /\ heap' = wTxUpdate(model, heap, row, aux.r,
                         KappaOf(LabelOf(aux.tr[aux.i + 1].yval), aux.t),
                         aux.param.eta, aux.param.lambda)
    /\ upd' = upd + 1
    /\ phase' = "t_row"
    /\ aux' = [aux EXCEPT !.i = @ + 1,
                          !.afterShrink = @ + (IF aux.shrinks > 0 THEN 1 ELSE 0)]
    /\ UNCHANGED <<model, row, last>>

\* end of the rows of an epoch: the report, with the validation pass when
\* not quiet and a non-empty validation set was given
TrainEpochEnd ==
    /\ phase = "t_row"
    /\ aux.i >= Len(aux.tr)
    /\ IF ~aux.param.quiet /\ ~aux.va.null /\ Len(aux.va.rows) # 0
       THEN /\ phase' = "t_validate"
            /\ aux' = [aux EXCEPT !.vi = 0]
       ELSE /\ phase' = "t_epoch"
            /\ aux' = [aux EXCEPT !.iter = @ + 1]
    /\ UNCHANGED <<model, heap, row, upd, last>>

\* one validation row: t = wTx(begin, end, r, *model), or the end of the pass
TrainValidate ==
    /\ phase = "t_validate"
    /\ IF aux.vi < Len(aux.va.rows)
       THEN /\ row' = aux.va.rows[aux.vi + 1].nodes
            /\ phase' = "t_validate"
            /\ aux' = [aux EXCEPT
                  !.vi = @ + 1,
                  !.r = TrainRowScale,
                  !.t = wTxScore(model, heap, row', TrainRowScale),
                  !.scores = @ + 1,
                  !.afterShrink = @ + (IF aux.shrinks > 0 THEN 1 ELSE 0)]
       ELSE /\ phase' = "t_epoch"
            /\ aux' = [aux EXCEPT !.iter = @ + 1]
            /\ UNCHANGED row
    /\ UNCHANGED <<model, heap, upd, last>>

\* return model; train_with_validation copies the fields into model_ret
TrainReturn ==
    /\ phase = "t_return"
    /\ phase' = "returned"
    /\ aux' = [aux EXCEPT !.ret = "model"]
    /\ UNCHANGED <<model, heap, row, upd, last>>

NextTrain ==
    \/ TrainInitModel
    \/ TrainEpochTest
    \/ TrainScore
    \/ TrainUpdate
    \/ TrainEpochEnd
    \/ TrainValidate
    \/ TrainReturn

SpecTrain == InitTrain /\ [][NextTrain]_vars

\* C3: the row scale train passes to both kernel calls of a row is the one
\* ffm_predict computes for that row: 1 without normalization,
\* 1/sqrt(sum of v^2) with it.
C3_TrainRowScaleAsPredict ==
    phase = "t_update" => aux.r = PredictRowScale(model, row)

\* C6: in a run of train the model is shrunk at most once and only after
\* every update of every epoch; no kernel call follows the shrink; the
\* returned model was shrunk exactly once, has k = param.k and holds at
\* (j*m+f)*k + d the embedding value the unshrunk buffer held.
C6_ShrunkOnceAtEnd ==
    /\ aux.shrinks <= 1
    /\ aux.afterShrink = 0
    /\ aux.shrinks = 1 =>
          /\ aux.iter = aux.param.nr_iters
          /\ upd = aux.param.nr_iters * Len(aux.tr)
          /\ phase \in {"t_return", "returned"}
    /\ phase = "returned" =>
          /\ aux.shrinks = 1
          /\ model.k = aux.param.k
          /\ \A c \in 0 .. (model.n * model.m - 1) : \A d \in 0 .. (model.k - 1) :
                heap[c * model.k + d] = aux.pre[c * 2 * k_aligned(aux.param.k) + d]

\* C6 witness: a returned model after two epochs over a non-empty training
\* set with a validation pass.
C6_Witness ==
    /\ phase = "returned"
    /\ aux.param.nr_iters = 2
    /\ upd >= 2
    /\ aux.scores > upd
    /\ heap # aux.pre

-----------------------------------------------------------------------------
(* Ownership.  Specification SpecLife: heap objects (ffm_model structs and *)
(* weight buffers) and the caller's model pointers.  aux.objs maps an      *)
(* object id to its kind, state, the number of times it was released and,  *)
(* for a model, its W (0 is nullptr); aux.handles are the caller's         *)
(* ffm_model* variables.                                                   *)

MaxObjs == 6
NumHandles == 2

Handles == 1 .. NumHandles

NoObj == [kind |-> "none", state |-> "unused", frees |-> 0, W |-> 0]

\* new ffm_model / posix_memalign: the next unused object
NewObj(st, kind) ==
    [st EXCEPT !.objs[st.next] = [kind |-> kind, state |-> "live", frees |-> 0, W |-> 0],
               !.next = @ + 1]

\* free(ptr) and delete ptr: nothing on nullptr
Release(st, id) ==
    IF id = 0 THEN st
    ELSE [st EXCEPT !.objs[id].state = "freed",
                    !.objs[id].frees = @ + 1,
                    !.fault = @ \/ st.objs[id].state # "live"]

\* faulty variant: the caller's pointer is left as it was
DestroyKeepsPointer(st, nullHandle, p) ==
    IF nullHandle \/ p = 0 THEN [st |-> st, p |-> p]
    ELSE [st |-> Release(Release(st, st.objs[p].W), p), p |-> p]

\* ffm_destroy_model(ffm_model **model): the store after it and *model
ffm_destroy_model(st, nullHandle, p) ==
    IF nullHandle \/ p = 0 THEN [st |-> st, p |-> p]
    ELSE [st |-> Release(Release(st, st.objs[p].W), p), p |-> 0]

\* init_model and the head of ffm_load_model: new ffm_model with W = nullptr,
\* then malloc_aligned_float; on bad_alloc ffm_destroy_model(&model)
ConstructModel(st, alloc_ok) ==
    LET s1 == NewObj(st, "model")
        A == st.next
    IN  IF alloc_ok
        THEN [st |-> [NewObj(s1, "buf") EXCEPT !.objs[A].W = s1.next], p |-> A]
        ELSE ffm_destroy_model(s1, FALSE, A)

\* model_ret->W = model->W; model->W = nullptr
HandOver(st, A, C) ==
    [st EXCEPT !.objs[C].W = st.objs[A].W, !.objs[A].W = 0]

\* train_with_validation: train builds the model under a shared_ptr whose
\* deleter is ffm_destroy_model; a throw inside train releases it; else
\* model_ret takes the buffer and the shared_ptr goes out of scope
train_with_validation(st, alloc_ok, data_ok) ==
    LET c1 == ConstructModel(st, alloc_ok)
    IN  IF c1.p = 0 THEN [st |-> c1.st, p |-> 0]
        ELSE IF ~data_ok THEN [st |-> ffm_destroy_model(c1.st, FALSE, c1.p).st, p |-> 0]
        ELSE LET s2 == NewObj(c1.st, "model")
                 C == c1.st.next
                 s3 == HandOver(s2, c1.p, C)
             IN  [st |-> ffm_destroy_model(s3, FALSE, c1.p).st, p |-> C]

InitLife ==
    /\ model = [n |-> 0, m |-> 0, k |-> 0, normalization |-> FALSE]
    /\ heap = <<>>
    /\ phase = "caller"
    /\ row = <<>>
    /\ upd = 0
    /\ last = NoCall
    /\ aux = [objs |-> [id \in 1 .. (MaxObjs + 1) |-> NoObj], next |-> 1, fault |-> FALSE,
              handles |-> [h \in Handles |-> 0],
              op |-> "none", h |-> 0, wasNull |-> FALSE, prev |-> <<>>]

\* h = ffm_train(prob, param)
TrainCall ==
    /\ phase = "caller"
    /\ aux.next + 2 <= MaxObjs
    /\ \E h \in Handles, alloc_ok \in BOOLEAN, data_ok \in BOOLEAN :
          /\ aux.handles[h] = 0
          /\ LET res == train_with_validation(aux, alloc_ok, data_ok)
             IN  aux' = [res.st EXCEPT !.handles[h] = res.p,
                            !.op = IF ~alloc_ok THEN "train_bad_alloc"
                                   ELSE IF ~data_ok THEN "train_threw" ELSE "train",
                            !.h = h, !.wasNull = FALSE, !.prev = aux.objs]
    /\ UNCHANGED <<model, heap, phase, row, upd, last>>

\* h = ffm_load_model(path)
LoadModelCall ==
    /\ phase = "caller"
    /\ aux.next + 1 <= MaxObjs
    /\ \E h \in Handles, opened \in BOOLEAN, alloc_ok \in BOOLEAN :
          /\ aux.handles[h] = 0
          /\ LET res == IF opened THEN ConstructModel(aux, alloc_ok)
                        ELSE [st |-> aux, p |-> 0]
             IN  aux' = [res.st EXCEPT !.handles[h] = res.p,
                            !.op = IF ~opened THEN "load_not_opened"
                                   ELSE IF ~alloc_ok THEN "load_bad_alloc" ELSE "load",
                            !.h = h, !.wasNull = FALSE, !.prev = aux.objs]
    /\ UNCHANGED <<model, heap, phase, row, upd, last>>

\* ffm_destroy_model(&h), or ffm_destroy_model(nullptr) when h = 0
DestroyCall ==
    /\ phase = "caller"
    /\ \E h \in Handles \cup {0} :
          LET p == IF h = 0 THEN 0 ELSE aux.handles[h]
              res == ffm_destroy_model(aux, h = 0, p)
          IN  aux' = [res.st EXCEPT
                         !.handles = IF h = 0 THEN @ ELSE [@ EXCEPT ![h] = res.p],
                         !.op = "destroy", !.h = h, !.wasNull = (p = 0),
                         !.prev = aux.objs]
    /\ UNCHANGED <<model, heap, phase, row, upd, last>>

NextLife == TrainCall \/ LoadModelCall \/ DestroyCall

SpecLife == InitLife /\ [][NextLife]_vars

LiveObjs == {id \in 1 .. MaxObjs : aux.objs[id].state = "live"}

\* the objects a caller's pointer reaches: its model and that model's W
Reached ==
    {aux.handles[h] : h \in Handles} \cup
    {aux.objs[aux.handles[h]].W : h \in {x \in Handles : aux.handles[x] # 0}}

\* C7: no object is released twice; a model a caller holds is live and so
\* is its buffer; ffm_destroy_model does nothing on a null handle or a
\* handle to null, releases model and buffer otherwise and leaves the
\* caller's pointer null; a construction whose buffer allocation fails
\* returns no model and leaves nothing allocated behind.
C7_OwnershipSafe ==
    /\ ~aux.fault
    /\ \A id \in 1 .. MaxObjs : aux.objs[id].frees <= 1
    /\ \A h \in Handles :
          aux.handles[h] # 0 =>
             /\ aux.objs[aux.handles[h]].kind = "model"
             /\ aux.objs[aux.handles[h]].state = "live"
             /\ aux.objs[aux.handles[h]].W # 0
             /\ aux.objs[aux.objs[aux.handles[h]].W].state = "live"
    /\ LiveObjs = Reached \ {0}
    /\ aux.op = "destroy" =>
          /\ aux.h # 0 => aux.handles[aux.h] = 0
          /\ aux.wasNull => aux.objs = aux.prev
    /\ aux.op \in {"train_bad_alloc", "train_threw", "load_bad_alloc", "load_not_opened"} =>
          aux.handles[aux.h] = 0

\* C7 witness: a second ffm_destroy_model on the pointer of a trained model
\* that the first call released, after a failed construction elsewhere.
C7_Witness ==
    /\ aux.op = "destroy"
    /\ aux.h # 0
    /\ aux.wasNull
    /\ Cardinality({id \in 1 .. MaxObjs : aux.objs[id].state = "freed"}) >= 4
    /\ \E id \in 1 .. MaxObjs : aux.objs[id].kind = "buf" /\ aux.objs[id].state = "freed"

====
